---- MODULE Spec2Model ----
(***************************************************************************)
(* Route-chain discovery and ranking engine (src/main.py): the relaxation  *)
(* loop of find_all_routes_from_request and the /get_all_routes handler.   *)
(* The LoadBoard Network endpoints (src/app/routers/loadboard.py) are a     *)
(* second specification, LoadboardSpec, over the configuration that        *)
(* is_supabase_enabled reads.  HosSpec runs the duty-time validator and    *)
(* validate_route_chain on chains of loads; ServiceSpec runs               *)
(* LoadBoardService.process_xml_request on the table loadboard_loads.      *)
(*                                                                         *)
(* Geometry.  Every point of a request lies on one meridian, so that       *)
(* haversine_distance reduces to R * |dlat| ; latitudes are measured in    *)
(* miles along that meridian (3959 * pi / 180 miles per degree), which     *)
(* makes every distance an integer number of miles.                        *)
(*                                                                         *)
(* Time.  An ISO-8601 string is modelled by what datetime.fromisoformat    *)
(* reads from it: a wall-clock reading in minutes since 2025-01-01T00:00   *)
(* and a zone ("naive" = no offset, "Z" = UTC), or Unparseable.            *)
(* An absent destination is a record whose field present is FALSE.         *)
(*                                                                         *)
(* Ratios.  Deadhead ratios are percentages; a comparison of two quotients *)
(* is made by cross-multiplication.                                        *)
(***************************************************************************)
EXTENDS Integers, Sequences, FiniteSets, TLC

None == "None"
Unparseable == [zone |-> "unparseable", minutes |-> 0]

Abs(n) == IF n < 0 THEN -n ELSE n
Max(a, b) == IF a >= b THEN a ELSE b
Min(a, b) == IF a <= b THEN a ELSE b

(***************************************************************************)
(* Geo/temporal utilities                                                  *)
(***************************************************************************)
haversine_distance(lat1, lon1, lat2, lon2) == Abs(lat2 - lat1)

PacificOffsetMinutes == 480

\* dt.astimezone(timezone.utc): minutes since 2025-01-01T00:00Z
to_utc(ts) == IF ts.zone = "naive" THEN ts.minutes + PacificOffsetMinutes ELSE ts.minutes

parse_iso_to_minutes(iso_string, reference_time) ==
    IF iso_string = Unparseable THEN 0 ELSE to_utc(iso_string) - reference_time

calculate_travel_time_miles(miles) == (miles * 60) \div 50

UnloadBufferMinutes == 60

can_chain_loads_nolimit(load1, load2, max_deadhead, reference_time) ==
    LET deadhead == haversine_distance(load1.destination.latitude, load1.destination.longitude,
                                       load2.origin.latitude, load2.origin.longitude)
        load1_delivery_earliest == parse_iso_to_minutes(load1.delivery_window.earliest, reference_time)
        load1_delivery_latest == parse_iso_to_minutes(load1.delivery_window.latest, reference_time)
        load2_pickup_latest == parse_iso_to_minutes(load2.pickup_window.latest, reference_time)
        earliest_arrival_at_load2 ==
            load1_delivery_earliest + UnloadBufferMinutes + calculate_travel_time_miles(deadhead)
    IN  IF load1_delivery_latest = 0 \/ load2_pickup_latest = 0
        THEN [can_chain |-> FALSE, deadhead |-> deadhead, error |-> "Invalid time window format"]
        ELSE IF earliest_arrival_at_load2 > load2_pickup_latest
        THEN [can_chain |-> FALSE, deadhead |-> deadhead, error |-> "Time window violation"]
        ELSE [can_chain |-> TRUE, deadhead |-> deadhead, error |-> None]

can_chain_loads(load1, load2, max_deadhead, reference_time) ==
    LET deadhead == haversine_distance(load1.destination.latitude, load1.destination.longitude,
                                       load2.origin.latitude, load2.origin.longitude)
        load1_delivery_earliest == parse_iso_to_minutes(load1.delivery_window.earliest, reference_time)
        load1_delivery_latest == parse_iso_to_minutes(load1.delivery_window.latest, reference_time)
        load2_pickup_latest == parse_iso_to_minutes(load2.pickup_window.latest, reference_time)
        earliest_arrival_at_load2 ==
            load1_delivery_earliest + UnloadBufferMinutes + calculate_travel_time_miles(deadhead)
    IN  IF deadhead > max_deadhead * 2
        THEN [can_chain |-> FALSE, deadhead |-> deadhead, error |-> "Deadhead exceeds max"]
        ELSE IF load1_delivery_latest = 0 \/ load2_pickup_latest = 0
        THEN [can_chain |-> FALSE, deadhead |-> deadhead, error |-> "Invalid time window format"]
        ELSE IF earliest_arrival_at_load2 > load2_pickup_latest
        THEN [can_chain |-> FALSE, deadhead |-> deadhead, error |-> "Time window violation"]
        ELSE [can_chain |-> TRUE, deadhead |-> deadhead, error |-> None]

(***************************************************************************)
(* Duty-time validator (validate_hos_for_chain)                            *)
(***************************************************************************)
MaxDrivingMinutes == 660
MaxOnDutyMinutes == 840
RequiredRestMinutes == 600
LoadTime == 60
UnloadTime == 60

\* the locals of validate_hos_for_chain before the first leg
hos_locals(start_time_minutes) ==
    [current_time |-> start_time_minutes,
     total_driving_minutes |-> 0,
     total_on_duty_minutes |-> 0,
     consecutive_driving_minutes |-> 0,
     arrival_at_delivery |-> 0,
     returned |-> FALSE, valid |-> TRUE, error |-> None]

hos_return(h, valid, error) == [h EXCEPT !.returned = TRUE, !.valid = valid, !.error = error]

\* one body of "for i, (load, deadhead_before) in enumerate(chain)", i counted from 1
hos_leg(h, chain, i, reference_time) ==
    LET load == chain[i].load
        deadhead_before == chain[i].deadhead
        pickup_earliest == parse_iso_to_minutes(load.pickup_window.earliest, reference_time)
        pickup_latest == parse_iso_to_minutes(load.pickup_window.latest, reference_time)
        delivery_latest == parse_iso_to_minutes(load.delivery_window.latest, reference_time)
        deadhead_time == calculate_travel_time_miles(deadhead_before)
        at_pickup == [h EXCEPT
                        !.total_driving_minutes = @ + deadhead_time,
                        !.consecutive_driving_minutes = @ + deadhead_time,
                        !.total_on_duty_minutes = @ + deadhead_time]
        arrival_at_pickup == Max(h.current_time + deadhead_time, pickup_earliest)
        load_travel_time == calculate_travel_time_miles(load.distance_miles)
        arrival_at_delivery == arrival_at_pickup + LoadTime + load_travel_time
        at_delivery == [at_pickup EXCEPT
                          !.total_driving_minutes = @ + load_travel_time,
                          !.consecutive_driving_minutes = @ + load_travel_time,
                          !.total_on_duty_minutes = @ + LoadTime + load_travel_time,
                          !.arrival_at_delivery = arrival_at_delivery]
        unloaded == [at_delivery EXCEPT
                       !.total_on_duty_minutes = @ + UnloadTime,
                       !.current_time = arrival_at_delivery + UnloadTime]
        \* "if consecutive_driving_minutes > max_driving_minutes"
        after_driving_check ==
            IF unloaded.consecutive_driving_minutes > MaxDrivingMinutes
            THEN [unloaded EXCEPT
                    !.current_time = @ + RequiredRestMinutes,
                    !.consecutive_driving_minutes = 0,
                    !.total_on_duty_minutes = @ + RequiredRestMinutes]
            ELSE unloaded
        \* "if total_on_duty_minutes > max_on_duty_minutes"
        after_duty_check ==
            IF after_driving_check.total_on_duty_minutes > MaxOnDutyMinutes
            THEN [after_driving_check EXCEPT
                    !.current_time = @ + RequiredRestMinutes,
                    !.consecutive_driving_minutes = 0,
                    !.total_on_duty_minutes = RequiredRestMinutes]
            ELSE after_driving_check
        next_pickup_latest ==
            parse_iso_to_minutes(chain[i + 1].load.pickup_window.latest, reference_time)
    IN  IF pickup_latest = 0 \/ delivery_latest = 0
        THEN hos_return(h, FALSE, "Load " \o ToString(i) \o " has invalid time windows")
        ELSE IF arrival_at_pickup > pickup_latest
        THEN hos_return(at_pickup, FALSE,
                        "Load " \o ToString(i) \o ": Cannot reach pickup by latest time (HOS constraint)")
        ELSE IF arrival_at_delivery > delivery_latest
        THEN hos_return(at_delivery, FALSE,
                        "Load " \o ToString(i) \o ": Cannot deliver by latest time (HOS constraint)")
        ELSE IF i < Len(chain) /\ next_pickup_latest = 0
        THEN hos_return(after_duty_check, FALSE, "Next load has invalid pickup window")
        ELSE IF i < Len(chain) /\ after_duty_check.current_time > next_pickup_latest
        THEN hos_return(after_duty_check, FALSE,
                        "Cannot reach next load pickup in time due to HOS constraints")
        ELSE IF i = Len(chain)
        THEN hos_return(after_duty_check, TRUE, None)
        ELSE after_duty_check

RECURSIVE hos_legs_from(_, _, _, _)
hos_legs_from(h, chain, i, reference_time) ==
    IF h.returned THEN h
    ELSE hos_legs_from(hos_leg(h, chain, i, reference_time), chain, i + 1, reference_time)

\* the whole call: (valid, error) are the fields valid and error of the result
validate_hos_for_chain(chain, start_time_minutes, reference_time) ==
    IF chain = <<>> THEN hos_return(hos_locals(start_time_minutes), TRUE, None)
    ELSE hos_legs_from(hos_locals(start_time_minutes), chain, 1, reference_time)

(***************************************************************************)
(* Chain-level validation (validate_route_chain)                           *)
(***************************************************************************)
\* the version in which "return False, HOS violation" is not commented out
validate_route_chain_enforcing(chain, start_time_minutes, max_deadhead, reference_time, validate_hos) ==
    IF Len(chain) <= 1 THEN TRUE
    ELSE IF \E i \in 1..(Len(chain) - 1) :
               ~can_chain_loads(chain[i].load, chain[i + 1].load, max_deadhead, reference_time).can_chain
    THEN FALSE
    ELSE ~(validate_hos /\ ~validate_hos_for_chain(chain, start_time_minutes, reference_time).valid)

\* the pairwise time-window check decides; a duty-time violation is logged only
validate_route_chain(chain, start_time_minutes, max_deadhead, reference_time, validate_hos) ==
    IF Len(chain) <= 1 THEN TRUE
    ELSE IF \E i \in 1..(Len(chain) - 1) :
               ~can_chain_loads(chain[i].load, chain[i + 1].load, max_deadhead, reference_time).can_chain
    THEN FALSE
    ELSE IF validate_hos /\ ~validate_hos_for_chain(chain, start_time_minutes, reference_time).valid
    THEN TRUE
    ELSE TRUE

(***************************************************************************)
(* Request conversion (find_all_routes_from_request, prologue)             *)
(***************************************************************************)
location_dict(loc) ==
    [latitude |-> loc.latitude, longitude |-> loc.longitude,
     city |-> IF loc.city = None THEN "Unknown" ELSE loc.city,
     state |-> IF loc.state = None THEN "" ELSE loc.state]

load_dict(load, index) ==
    [load_id |-> IF load.id = None THEN "load_" \o ToString(index) ELSE load.id,
     origin |-> location_dict(load.origin),
     destination |-> location_dict(load.destination),
     pickup_window |-> load.pickupWindow,
     delivery_window |-> load.deliveryWindow,
     distance_miles |-> load.distanceMiles,
     revenue |-> load.revenue]

\* loads_dict: index is len(loads_dict) at the time of the append, i.e. 0-based
to_loads_dict(loads) == [i \in 1..Len(loads) |-> load_dict(loads[i], i - 1)]

DefaultReferenceTime == 0

reference_time_of(loads_dict) ==
    LET parsed == {to_utc(loads_dict[i].pickup_window.earliest) :
                     i \in {k \in 1..Len(loads_dict) : loads_dict[k].pickup_window.earliest # Unparseable}}
    IN  IF parsed = {} THEN DefaultReferenceTime
        ELSE (CHOOSE m \in parsed : \A x \in parsed : m <= x) - 24 * 60

(***************************************************************************)
(* One relaxation iteration: chain graph, DFS, single-load pass            *)
(***************************************************************************)
\* "if dest_lat and dest_lon": a coordinate that is None or 0.0 is falsy
dest_truthy(ctx) ==
    ctx.destination.present /\ ctx.destination.latitude # 0 /\ ctx.destination.longitude # 0

indices(n) == [i \in 1..n |-> i]

\* the subsequence of seq at the indices in keep
pick(seq, keep) ==
    LET ks == SelectSeq(indices(Len(seq)), LAMBDA i : i \in keep)
    IN  [k \in 1..Len(ks) |-> seq[ks[k]]]

\* a stable sort: seq[i] comes before seq[j] when before(seq[i], seq[j]), and
\* elements neither of which is before the other keep their order (list.sort)
stable_sort(seq, before(_, _)) ==
    LET n == Len(seq)
        rank == [i \in 1..n |->
                    1 + Cardinality({j \in 1..n : \/ before(seq[j], seq[i])
                                                  \/ ~before(seq[i], seq[j]) /\ j < i})]
    IN  [r \in 1..n |-> seq[CHOOSE i \in 1..n : rank[i] = r]]

\* the list chain_graph[id]: the pairs (i, j) of the nested loops in loop order,
\* kept when loads_dict[i] carries the id and loads_dict[j] can follow it
edges_of_id(loads_dict, id, max_deadhead, reference_time) ==
    LET n == Len(loads_dict)
        i_of(k) == ((k - 1) \div n) + 1
        j_of(k) == ((k - 1) % n) + 1
        ks == SelectSeq(indices(n * n),
                        LAMBDA k : /\ loads_dict[i_of(k)].load_id = id
                                   /\ i_of(k) # j_of(k)
                                   /\ can_chain_loads(loads_dict[i_of(k)], loads_dict[j_of(k)],
                                                      max_deadhead, reference_time).can_chain)
    IN  [e \in 1..Len(ks) |->
            [load |-> loads_dict[j_of(ks[e])],
             deadhead |-> can_chain_loads(loads_dict[i_of(ks[e])], loads_dict[j_of(ks[e])],
                                          max_deadhead, reference_time).deadhead]]

\* a defaultdict: only the ids that received an edge are keys
build_chain_graph(loads_dict, max_deadhead, reference_time) ==
    LET ids == {loads_dict[i].load_id : i \in 1..Len(loads_dict)}
        all == [id \in ids |-> edges_of_id(loads_dict, id, max_deadhead, reference_time)]
    IN  [id \in {x \in ids : all[x] # <<>>} |-> all[id]]

label(loc) == loc.city \o ", " \o loc.state

segment_of(load, deadhead) ==
    [load_id |-> load.load_id,
     origin |-> label(load.origin),
     destination |-> label(load.destination),
     distance_miles |-> load.distance_miles,
     revenue |-> load.revenue,
     pickup_window |-> load.pickup_window,
     delivery_window |-> load.delivery_window,
     deadhead_before |-> deadhead]

RECURSIVE sum_over(_, _)
sum_over(seq, field) ==
    IF seq = <<>> THEN 0 ELSE seq[1][field] + sum_over(Tail(seq), field)

\* the geographic anti-backtracking loop of dfs_route: TRUE when it returns early
geo_rejected(ctx, current_chain) ==
    /\ dest_truthy(ctx)
    /\ LET dlat(i) == current_chain[i].load.destination.latitude
           dlon(i) == current_chain[i].load.destination.longitude
           distance_to_target(i) == haversine_distance(dlat(i), dlon(i), ctx.destination.latitude, ctx.destination.longitude)
           distance_from_origin(i) == haversine_distance(ctx.origin_lat, ctx.origin_lon, dlat(i), dlon(i))
           current_state(i) == current_chain[i].load.destination.state
       IN  \E i \in 1..Len(current_chain) :
              \/ \E k \in 1..(i - 1) : current_state(k) = current_state(i)
              \/ i > 1 /\ distance_to_target(i) > distance_to_target(i - 1) + 100
              \/ i > 1 /\ distance_from_origin(i) < distance_from_origin(i - 1) - 50

ends_near(ctx, distance_to_dest) ==
    ctx.destination.present /\ distance_to_dest <= ctx.dest_deadhead

route_of_chain(ctx, current_chain, current_load, route_id) ==
    LET distance_to_dest ==
            IF ~dest_truthy(ctx) THEN 0
            ELSE haversine_distance(current_load.destination.latitude,
                                    current_load.destination.longitude,
                                    ctx.destination.latitude, ctx.destination.longitude)
        segments == [k \in 1..Len(current_chain) |->
                        segment_of(current_chain[k].load, current_chain[k].deadhead)]
    IN  [route_id |-> route_id,
         segments |-> segments,
         total_distance |-> sum_over(segments, "distance_miles"),
         total_revenue |-> sum_over(segments, "revenue"),
         total_deadhead |-> sum_over(segments, "deadhead_before"),
         ends_near_destination |-> ends_near(ctx, distance_to_dest),
         final_distance_to_dest |-> distance_to_dest]

chain_sig_of(current_chain) == [k \in 1..Len(current_chain) |-> current_chain[k].load.load_id]

in_chain_revisit(current_chain, next_load) == FALSE

\* "any(l[0]['load_id'] == next_load['load_id'] for l in current_chain)"
in_chain(current_chain, next_load) ==
    \E k \in 1..Len(current_chain) : current_chain[k].load.load_id = next_load.load_id

RECURSIVE dfs_route(_, _, _, _, _)
RECURSIVE dfs_extend(_, _, _, _, _, _)

\* acc = [all_routes, processed_chains], the two collections dfs_route mutates
dfs_route(ctx, current_chain, current_load, depth, acc) ==
    IF Len(acc.all_routes) >= ctx.max_routes * 3 THEN acc
    ELSE IF depth > ctx.max_chain_length THEN acc
    ELSE IF /\ Len(current_chain) >= 2
            /\ \/ geo_rejected(ctx, current_chain)
               \/ ~validate_route_chain(current_chain,
                                        parse_iso_to_minutes(current_chain[1].load.pickup_window.earliest,
                                                             ctx.reference_time),
                                        ctx.max_deadhead, ctx.reference_time, FALSE)
    THEN acc
    ELSE LET route == route_of_chain(ctx, current_chain, current_load, Len(acc.all_routes) + 1)
             chain_sig == chain_sig_of(current_chain)
             acc1 == IF chain_sig \notin acc.processed_chains
                     THEN [all_routes |-> Append(acc.all_routes, route),
                           processed_chains |-> acc.processed_chains \cup {chain_sig}]
                     ELSE acc
         IN  IF current_load.load_id \in DOMAIN ctx.chain_graph
             THEN dfs_extend(ctx, current_chain, ctx.chain_graph[current_load.load_id], 1, depth, acc1)
             ELSE acc1

\* "for next_load, deadhead in chain_graph[current_load['load_id']]", from edge k on
dfs_extend(ctx, current_chain, edges, k, depth, acc) ==
    IF k > Len(edges) THEN acc
    ELSE LET next_load == edges[k].load
             acc1 == IF ~in_chain(current_chain, next_load)
                     THEN dfs_route(ctx, Append(current_chain, edges[k]), next_load, depth + 1, acc)
                     ELSE acc
         IN  dfs_extend(ctx, current_chain, edges, k + 1, depth, acc1)

start_distance(ctx, load) ==
    haversine_distance(ctx.origin_lat, ctx.origin_lon, load.origin.latitude, load.origin.longitude)

\* starting_loads: indices of the loads within max_deadhead of the origin,
\* sorted by that distance
starting_loads(ctx) ==
    stable_sort(SelectSeq(indices(Len(ctx.loads_dict)),
                          LAMBDA i : start_distance(ctx, ctx.loads_dict[i]) <= ctx.max_deadhead),
                LAMBDA a, b : start_distance(ctx, ctx.loads_dict[a]) < start_distance(ctx, ctx.loads_dict[b]))

RECURSIVE dfs_from_starts(_, _, _, _)
\* "for start_load, start_deadhead in starting_loads"
dfs_from_starts(ctx, starts, k, acc) ==
    IF k > Len(starts) THEN acc
    ELSE LET start_load == ctx.loads_dict[starts[k]]
             chain_signature == <<start_load.load_id>>
             acc1 == IF chain_signature \notin acc.processed_chains
                     THEN LET a == dfs_route(ctx,
                                       <<[load |-> start_load, deadhead |-> start_distance(ctx, start_load)]>>,
                                       start_load, 1, acc)
                          IN  [a EXCEPT !.processed_chains = @ \cup {chain_signature}]
                     ELSE acc
         IN  dfs_from_starts(ctx, starts, k + 1, acc1)

\* "Also add single-load routes that start near origin": a load is added when it is
\* within max_deadhead and its one-id signature is not yet in processed_chains, which
\* by then holds the DFS signatures and those of the loads added earlier in this pass
single_load_pass(ctx, acc) ==
    LET loads_dict == ctx.loads_dict
        near(i) == start_distance(ctx, loads_dict[i]) <= ctx.max_deadhead
        added == SelectSeq(indices(Len(loads_dict)),
                           LAMBDA i : /\ near(i)
                                      /\ <<loads_dict[i].load_id>> \notin acc.processed_chains
                                      /\ \A j \in 1..(i - 1) :
                                            ~(near(j) /\ loads_dict[j].load_id = loads_dict[i].load_id))
    IN  [all_routes |-> acc.all_routes \o
                        [k \in 1..Len(added) |->
                            route_of_chain(ctx,
                                <<[load |-> loads_dict[added[k]],
                                   deadhead |-> start_distance(ctx, loads_dict[added[k]])]>>,
                                loads_dict[added[k]], Len(acc.all_routes) + k)],
         processed_chains |-> acc.processed_chains \cup {<<loads_dict[added[k]].load_id>> : k \in 1..Len(added)}]

candidate_routes(ctx) ==
    LET acc0 == [all_routes |-> <<>>, processed_chains |-> {}]
        acc1 == dfs_from_starts(ctx, starting_loads(ctx), 1, acc0)
    IN  single_load_pass(ctx, acc1).all_routes

(***************************************************************************)
(* Dedup, filter stages, quality score, cap                                *)
(***************************************************************************)
route_sig(route) ==
    [k \in 1..Len(route.segments) |-> <<route.segments[k].origin, route.segments[k].destination>>]

remove_duplicates_none(all_routes) == all_routes

\* first occurrence of every signature wins (seen_signatures)
remove_duplicates(all_routes) ==
    pick(all_routes,
         {i \in 1..Len(all_routes) :
            \A j \in 1..(i - 1) : route_sig(all_routes[j]) # route_sig(all_routes[i])})

\* deadhead_ratio > pct / 100, with deadhead_ratio = deadhead / (distance + deadhead)
ratio_exceeds(route, pct) ==
    route.total_deadhead * 100 > pct * (route.total_distance + route.total_deadhead)

passes_stage1(route, min_revenue, max_deadhead_ratio) ==
    /\ ~(route.total_revenue < min_revenue)
    /\ ~(route.total_distance > 0 /\ ratio_exceeds(route, max_deadhead_ratio))

passes_relaxed(route, min_revenue, relaxed_deadhead_ratio) ==
    /\ ~(route.total_revenue < min_revenue)
    /\ (route.total_distance > 0 => ~ratio_exceeds(route, relaxed_deadhead_ratio))

passes_revenue_any(route, min_revenue) == TRUE

passes_revenue(route, min_revenue) == route.total_revenue >= min_revenue

\* the score tuple; loaded_ratio is kept as numerator and denominator
quality_score(route) ==
    LET total_miles == route.total_distance + route.total_deadhead
        num_segments == Len(route.segments)
        segment_penalty == IF num_segments >= 3 THEN (num_segments - 2) * 50 ELSE 0
    IN  [loaded_miles |-> route.total_distance,
         ratio_num |-> IF total_miles > 0 THEN route.total_distance ELSE 0,
         ratio_den |-> IF total_miles > 0 THEN total_miles ELSE 1,
         neg_total_miles |-> -total_miles,
         neg_deadhead_miles |-> -route.total_deadhead,
         neg_segment_penalty |-> -segment_penalty]

\* tuple comparison a > b, element by element
score_gt(a, b) ==
    LET ra == a.ratio_num * b.ratio_den
        rb == b.ratio_num * a.ratio_den
    IN  \/ a.loaded_miles > b.loaded_miles
        \/ /\ a.loaded_miles = b.loaded_miles
           /\ \/ ra > rb
              \/ /\ ra = rb
                 /\ \/ a.neg_total_miles > b.neg_total_miles
                    \/ /\ a.neg_total_miles = b.neg_total_miles
                       /\ \/ a.neg_deadhead_miles > b.neg_deadhead_miles
                          \/ /\ a.neg_deadhead_miles = b.neg_deadhead_miles
                             /\ a.neg_segment_penalty > b.neg_segment_penalty

sort_by_quality_discovery_order(routes) == routes

\* list.sort(key=quality_score, reverse=True): stable, best first
sort_by_quality(routes) ==
    stable_sort(routes, LAMBDA a, b : score_gt(quality_score(a), quality_score(b)))

RelaxStep == 20
RelaxCeiling == 95

\* the three filter stages; stage tells which list became filtered_routes
filter_routes(unique_routes, min_revenue, max_deadhead_ratio, min_required_routes) ==
    LET n == Len(unique_routes)
        stage1 == sort_by_quality(pick(unique_routes,
                     {i \in 1..n : passes_stage1(unique_routes[i], min_revenue, max_deadhead_ratio)}))
        relaxed_deadhead_ratio == Min(RelaxCeiling, max_deadhead_ratio + RelaxStep)
        relaxed_filtered == sort_by_quality(pick(unique_routes,
                     {i \in 1..n : passes_relaxed(unique_routes[i], min_revenue, relaxed_deadhead_ratio)}))
        use_relaxed == /\ Len(stage1) < min_required_routes /\ n > Len(stage1)
                       /\ \/ Len(relaxed_filtered) >= min_required_routes
                          \/ Len(relaxed_filtered) > Len(stage1)
        after2 == IF use_relaxed THEN relaxed_filtered ELSE stage1
        no_deadhead_filter == sort_by_quality(pick(unique_routes,
                     {i \in 1..n : passes_revenue(unique_routes[i], min_revenue)}))
        use_none == /\ Len(after2) < min_required_routes /\ n > Len(after2)
                    /\ Len(no_deadhead_filter) > Len(after2)
    IN  [routes |-> IF use_none THEN no_deadhead_filter ELSE after2,
         stage |-> IF use_none THEN 3 ELSE IF use_relaxed THEN 2 ELSE 1]

limit_keeping_ids(filtered_routes, max_routes) ==
    IF Len(filtered_routes) > max_routes THEN SubSeq(filtered_routes, 1, max_routes) ELSE filtered_routes

limit_and_renumber(filtered_routes, max_routes) ==
    LET top == IF Len(filtered_routes) > max_routes
               THEN SubSeq(filtered_routes, 1, max_routes)
               ELSE filtered_routes
    IN  [i \in 1..Len(top) |-> [top[i] EXCEPT !.route_id = i]]

\* the body of the while loop up to "Renumber routes"
search_iteration(ctx) ==
    LET all_routes == candidate_routes(ctx)
        unique_routes == remove_duplicates(all_routes)
        f == filter_routes(unique_routes, ctx.min_revenue, ctx.max_deadhead_ratio, ctx.min_required_routes)
    IN  [max_deadhead |-> ctx.max_deadhead,
         dest_deadhead |-> ctx.dest_deadhead,
         chain_graph |-> ctx.chain_graph,
         all_routes |-> all_routes,
         unique_routes |-> unique_routes,
         stage |-> f.stage,
         filtered_before_cap |-> f.routes,
         filtered_routes |-> limit_and_renumber(f.routes, ctx.max_routes)]

(***************************************************************************)
(* Pagination (get_all_routes)                                             *)
(***************************************************************************)
paginated_routes_short(all, page_no, size) ==
    LET start_idx == (page_no - 1) * size
        end_idx == start_idx + size - 1
    IN  SubSeq(all, start_idx + 1, Min(end_idx, Len(all)))

paginated_routes(all, page_no, size) ==
    LET start_idx == (page_no - 1) * size
        end_idx == start_idx + size
    IN  SubSeq(all, start_idx + 1, Min(end_idx, Len(all)))

total_pages_of(total_routes_found, size) ==
    IF size > 0 THEN (total_routes_found + size - 1) \div size ELSE 1

(***************************************************************************)
(* Inputs                                                                  *)
(***************************************************************************)
\* a point of the meridian 90 W, lat miles along it
loc(lat, city, state) == [latitude |-> lat, longitude |-> -90, city |-> city, state |-> state]

Origin == loc(1000, "Origin", "TX")
naive(m) == [zone |-> "naive", minutes |-> m]
utc(m) == [zone |-> "Z", minutes |-> m]

WideWindows == [pickupWindow |-> [earliest |-> naive(0), latest |-> naive(6000)],
                deliveryWindow |-> [earliest |-> naive(600), latest |-> naive(9000)]]
\* pickup closes before any delivery elsewhere can be complete
TightWindows == [pickupWindow |-> [earliest |-> utc(600), latest |-> utc(900)],
                 deliveryWindow |-> [earliest |-> utc(1500), latest |-> utc(3000)]]
BadWindows == [pickupWindow |-> [earliest |-> Unparseable, latest |-> Unparseable],
               deliveryWindow |-> [earliest |-> Unparseable, latest |-> Unparseable]]

raw_load(id, origin, destination, windows, distanceMiles, revenue) ==
    [id |-> id, origin |-> origin, destination |-> destination,
     pickupWindow |-> windows.pickupWindow, deliveryWindow |-> windows.deliveryWindow,
     distanceMiles |-> distanceMiles, revenue |-> revenue]

LoadA == raw_load("A", loc(1020, "Austin", "TX"), loc(1060, "Waco", "TX"), WideWindows, 200, 900)
LoadB == raw_load("B", loc(1050, "Waco", "TX"), loc(1100, "Tulsa", "OK"), WideWindows, 150, 400)
LoadC == raw_load(None, loc(1090, None, None), loc(1010, "Hope", "AR"), WideWindows, 120, 1200)
\* carries A's id and B's endpoints, no loaded distance given
LoadD == raw_load("A", loc(1080, "Waco", "TX"), loc(1030, "Tulsa", "OK"), WideWindows, 0, 300)
\* out of reach of the first tolerances, a long deadhead from the others
LoadT == raw_load("T", loc(1480, "Salem", "MO"), loc(1700, "Peoria", "IL"), TightWindows, 60, 2000)
\* never within reach of the origin or of another load
LoadFar == raw_load("F", loc(9000, "Nome", "AK"), loc(9100, "Homer", "AK"), BadWindows, 100, 100)

\* with LoadA: the chains A -> E and E -> A have the same miles and the same deadhead
LoadE == raw_load("E", loc(1040, "Dallas", "TX"), loc(1020, "Bryan", "TX"), WideWindows, 180, 700)
LoadP == raw_load("P", loc(1010, "Plano", "TX"), loc(1040, "Paris", "TX"), WideWindows, 90, 500)
\* 10 miles from LoadP's delivery; pickup closes 80 minutes after LoadP's earliest delivery
LoadQ == raw_load("Q", loc(1050, "Quinlan", "TX"), loc(1090, "Quitman", "TX"),
                  [pickupWindow |-> [earliest |-> naive(0), latest |-> naive(680)],
                   deliveryWindow |-> [earliest |-> naive(900), latest |-> naive(9000)]], 110, 600)
\* the earliest timestamps are not ISO-8601, the latest ones are
LoadU == raw_load("U", loc(1030, "Uvalde", "TX"), loc(1070, "Utopia", "TX"),
                  [pickupWindow |-> [earliest |-> Unparseable, latest |-> naive(6000)],
                   deliveryWindow |-> [earliest |-> Unparseable, latest |-> naive(9000)]], 130, 800)
\* delivery window closes 24 h before the earliest pickup of the request opens
LoadZ == raw_load("Z", loc(1030, "Zapata", "TX"), loc(1070, "Zavalla", "TX"),
                  [pickupWindow |-> [earliest |-> naive(0), latest |-> naive(6000)],
                   deliveryWindow |-> [earliest |-> naive(-2000), latest |-> naive(-1440)]], 130, 800)

\* a haul of twelve hours at 50 mph, and one of five
LoadH == raw_load("H", loc(1100, "Houston", "TX"), loc(1700, "Hays", "KS"), WideWindows, 600, 3000)
LoadL == raw_load("L", loc(1060, "Laredo", "TX"), loc(1310, "Lamar", "CO"), WideWindows, 250, 1500)

\* short hauls far from the origin: deadhead ratios of 96 % and of 99 % as single loads
LoadS == raw_load("S", loc(1096, "Sonora", "TX"), loc(1100, "Salina", "KS"), WideWindows, 4, 700)
LoadW == raw_load("W", loc(1099, "Weimar", "TX"), loc(1100, "Wray", "CO"), WideWindows, 1, 650)

\* LoadB's endpoints by name, a pickup 20 miles further out, more than twice the revenue
LoadG == raw_load("G", loc(1070, "Waco", "TX"), loc(1100, "Tulsa", "OK"), WideWindows, 150, 900)

Catalog == <<LoadA, LoadB, LoadC, LoadD, LoadT>>

\* requests made for a purpose: four mutually chainable loads, a pair with equal
\* scores, and pairs that differ in their time windows only
SpecialLoadLists ==
    {<<LoadA, LoadB, LoadC, LoadE>>, <<LoadA, LoadE>>,
     <<LoadP, LoadQ>>, <<LoadP, LoadU>>, <<LoadP, LoadZ>>}

MaxLoads == 3

pad(loads, n) == [i \in 1..Max(n, Len(loads)) |-> IF i <= Len(loads) THEN loads[i] ELSE LoadFar]

\* the loads of a request: up to MaxLoads catalog loads in catalog order,
\* or the first three catalog loads among inert loads up to the medium tier
SmallLoadLists ==
    {pick(Catalog, keep) : keep \in {k \in SUBSET (1..Len(Catalog)) : Cardinality(k) <= MaxLoads}}

MediumTierLoads == 50
LargeTierLoads == 100

MediumLoadLists == {pad(<<LoadA, LoadB, LoadC>>, MediumTierLoads)}

NoDestination == [present |-> FALSE, latitude |-> 0, longitude |-> 0, city |-> None, state |-> None]
Destinations ==
    {NoDestination,
     [present |-> TRUE, latitude |-> 1120, longitude |-> -90, city |-> "Tulsa", state |-> "OK"]}
\* a target on the equator: latitude 0.0
EquatorDestination ==
    [present |-> TRUE, latitude |-> 0, longitude |-> -90, city |-> "Quito", state |-> "EC"]

opt1(k, v) == [x \in {k} |-> v]
NoOptions == [x \in {} |-> 0]
OptionSets ==
    {NoOptions,
     opt1("maxRoutes", 1),
     opt1("maxChainLength", 2),
     opt1("maxChainLength", 0),
     opt1("maxOriginDeadheadMiles", 0),
     opt1("maxOriginDeadheadMiles", 600),
     [x \in {"minRevenue", "maxDeadheadRatio"} |-> IF x = "minRevenue" THEN 500 ELSE 30],
     [x \in {"maxOriginDeadheadMiles", "maxDestinationDeadheadMiles"} |->
          IF x = "maxOriginDeadheadMiles" THEN 300 ELSE 20]}

\* a deadhead-ratio cap above the ceiling of the relaxed stage
HighRatioOptions == opt1("maxDeadheadRatio", 97)

\* a destination tolerance that starts 20 miles under the ceiling
WideDestinationOptions == opt1("maxDestinationDeadheadMiles", 480)

\* a revenue floor between the revenues of LoadB and LoadG
RevenueFloorOptions == opt1("minRevenue", 500)

Requests ==
    {[loads |-> l,
      searchCriteria |-> [origin |-> Origin, destination |-> d, options |-> o]] :
        l \in SmallLoadLists, d \in Destinations, o \in OptionSets}
    \cup
    {[loads |-> l,
      searchCriteria |-> [origin |-> Origin, destination |-> NoDestination, options |-> o]] :
        l \in MediumLoadLists, o \in {NoOptions, opt1("maxChainLength", 2)}}
    \cup
    {[loads |-> l,
      searchCriteria |-> [origin |-> Origin, destination |-> NoDestination, options |-> NoOptions]] :
        l \in SpecialLoadLists}
    \cup
    {[loads |-> <<LoadA, LoadB>>,
      searchCriteria |-> [origin |-> Origin, destination |-> d, options |-> WideDestinationOptions]] :
        d \in Destinations}
    \cup
    {[loads |-> <<LoadB, LoadG>>,
      searchCriteria |-> [origin |-> Origin, destination |-> NoDestination, options |-> RevenueFloorOptions]]}
    \cup
    {[loads |-> <<LoadS, LoadW>>,
      searchCriteria |-> [origin |-> Origin, destination |-> NoDestination, options |-> HighRatioOptions]]}
    \cup
    {[loads |-> l,
      searchCriteria |-> [origin |-> Origin, destination |-> EquatorDestination, options |-> NoOptions]] :
        l \in SmallLoadLists}

\* chains handed to the duty-time validator: legs (load, deadhead_before)
MaxLegs == 2
HosLoads == to_loads_dict(<<LoadA, LoadB, LoadH, LoadL, LoadZ>>)
HosDeadheads == {0, 50}
HosLegs == {[load |-> HosLoads[i], deadhead |-> d] : i \in 1..Len(HosLoads), d \in HosDeadheads}
HosChains == UNION {[1..n -> HosLegs] : n \in 0..MaxLegs}
HosStartTimes == {0, 600}
HosReferenceTimes == {DefaultReferenceTime, reference_time_of(HosLoads)}

\* (page, page_size) of a call
PageChoices == {<<1, 10>>, <<2, 10>>, <<2, 2>>}

(***************************************************************************)
(* State                                                                   *)
(***************************************************************************)
VARIABLES
    request,          \* the AllRoutesRequest body; the same for every call
    page, page_size,  \* query parameters of the call in progress
    pc,               \* "idle" | "search" | "returned" | "done"
    params,           \* arguments get_all_routes passes to find_all_routes_from_request
    iteration, max_deadhead, dest_deadhead, best_routes, best_deadhead,
    iter,             \* locals of the latest loop body (<<>> before the first)
    history,          \* one entry per loop body executed in this call
    routes, actual_deadhead,   \* the pair find_all_routes_from_request returned
    response,         \* the HTTP answer of the call (<<>> until sent)
    previous,         \* <<>> or the outcome of the previous call
    settings,         \* what is_supabase_enabled reads: package importable, URL and key set
    lb_request,       \* the latest request to a /loadboard endpoint
    lb_outcome,       \* what LoadBoardService.process_xml_request did for it
    lb_response,      \* the answer to it
    service_invocations,  \* number of calls of process_xml_request so far
    hos_call,         \* arguments of the validate_hos_for_chain call in progress
    hos_i,            \* the leg its loop is at, counted from 1
    hos,              \* its locals, and what it returned once it has
    vrc,              \* the validate_route_chain call made for the same chain
    table,            \* unique_id values of the rows of loadboard_loads
    lbn_call,         \* the XML document LoadBoardService.process_xml_request got last
    processed         \* the (response_message, success_count) it returned

route_vars == <<request, page, page_size, pc, params, iteration, max_deadhead, dest_deadhead,
                best_routes, best_deadhead, iter, history, routes, actual_deadhead, response, previous>>

loadboard_vars == <<settings, lb_request, lb_outcome, lb_response, service_invocations>>

hos_vars == <<hos_call, hos_i, hos, vrc>>

service_vars == <<table, lbn_call, processed>>

vars == <<route_vars, loadboard_vars, hos_vars, service_vars>>

opt_get(options, key, default) == IF key \in DOMAIN options THEN options[key] ELSE default

DefaultMaxTotalRoutes == 200
DefaultMinRevenue == 0
DefaultMaxDeadheadRatio == 60
DefaultMaxChainLength == 5
DefaultMinRequiredRoutes == 10
LargeMinRequiredRoutes == 15
MediumDeadheadRatio == 80
LargeDeadheadRatio == 85
TierChainLength == 3
DefaultMaxDeadhead == 100
MaxIterations == 10
Increment == 50
MaxDeadheadLimit == 500

\* get_all_routes: the arguments of the search, from the options and the load count
search_params(req, page_no, size) ==
    LET options == req.searchCriteria.options
        num_loads == Len(req.loads)
        max_total_routes == opt_get(options, "maxRoutes", DefaultMaxTotalRoutes)
        min_revenue == opt_get(options, "minRevenue", DefaultMinRevenue)
        ratio0 == opt_get(options, "maxDeadheadRatio", DefaultMaxDeadheadRatio)
        chain0 == opt_get(options, "maxChainLength", DefaultMaxChainLength)
        medium == MediumTierLoads <= num_loads /\ num_loads <= LargeTierLoads
        large == num_loads > LargeTierLoads
        max_deadhead_ratio ==
            IF medium THEN Max(ratio0, MediumDeadheadRatio)
            ELSE IF large THEN Max(ratio0, LargeDeadheadRatio) ELSE ratio0
        min_required_routes == IF large THEN LargeMinRequiredRoutes ELSE DefaultMinRequiredRoutes
        max_chain_length == IF medium \/ large THEN TierChainLength ELSE chain0
    IN  [max_chain_length |-> max_chain_length,
         auto_increase_deadhead |-> TRUE,
         max_iterations |-> MaxIterations,
         max_routes |-> Max(min_required_routes, Min(max_total_routes, page_no * size)),
         min_revenue |-> min_revenue,
         max_deadhead_ratio |-> max_deadhead_ratio,
         min_required_routes |-> min_required_routes]

initial_max_deadhead(req) ==
    opt_get(req.searchCriteria.options, "maxOriginDeadheadMiles", DefaultMaxDeadhead)

initial_dest_deadhead(req) ==
    opt_get(req.searchCriteria.options, "maxDestinationDeadheadMiles", initial_max_deadhead(req))

\* a module-level list that survives the call
loop_locals_stale(req) ==
    [iteration |-> 0,
     max_deadhead |-> initial_max_deadhead(req),
     dest_deadhead |-> initial_dest_deadhead(req),
     best_routes |-> best_routes,
     best_deadhead |-> initial_max_deadhead(req)]

\* the locals set before the while loop
loop_locals(req) ==
    [iteration |-> 0,
     max_deadhead |-> initial_max_deadhead(req),
     dest_deadhead |-> initial_dest_deadhead(req),
     best_routes |-> <<>>,
     best_deadhead |-> initial_max_deadhead(req)]

loop_continues_uncapped(it, max_iterations, md) == md <= MaxDeadheadLimit

\* the while condition
loop_continues(it, max_iterations, md) == it < max_iterations /\ md <= MaxDeadheadLimit

replaces_best_never(filtered_routes, best) == FALSE

\* "if len(filtered_routes) > len(best_routes)"
replaces_best(filtered_routes, best) == Len(filtered_routes) > Len(best)

enough_routes_never(filtered_routes, min_required_routes) == FALSE

\* "If we have enough routes, return them"
enough_routes(filtered_routes, min_required_routes) == Len(filtered_routes) >= min_required_routes

increased_deadhead_dropping_initial(initial, it) == Increment * it

\* "initial_origin_deadhead + (increment * iteration)"
increased_deadhead(initial, it) == initial + Increment * it

context(req, prm, md, dd) ==
    LET loads_dict == to_loads_dict(req.loads)
        reference_time == reference_time_of(loads_dict)
    IN  [loads_dict |-> loads_dict,
         origin_lat |-> req.searchCriteria.origin.latitude,
         origin_lon |-> req.searchCriteria.origin.longitude,
         destination |-> req.searchCriteria.destination,
         reference_time |-> reference_time,
         max_deadhead |-> md,
         dest_deadhead |-> dd,
         max_chain_length |-> prm.max_chain_length,
         max_routes |-> prm.max_routes,
         min_revenue |-> prm.min_revenue,
         max_deadhead_ratio |-> prm.max_deadhead_ratio,
         min_required_routes |-> prm.min_required_routes,
         chain_graph |-> build_chain_graph(loads_dict, md, reference_time)]

http_response(status, all, shown, page_no, size) ==
    LET total_routes_found == Len(all)
        total_pages == total_pages_of(total_routes_found, size)
    IN  [status |-> status,
         total_routes |-> total_routes_found,
         routes |-> shown,
         message |-> "Found " \o ToString(total_routes_found) \o " total routes. Showing page "
                     \o ToString(page_no) \o " of " \o ToString(total_pages)
                     \o " (" \o ToString(Len(shown)) \o " routes)",
         pagination |-> [page |-> page_no, page_size |-> size, total_pages |-> total_pages,
                         total_routes |-> total_routes_found, routes_on_page |-> Len(shown),
                         has_next_page |-> page_no < total_pages,
                         has_previous_page |-> page_no > 1]]

http_error(status, detail) == [status |-> status, detail |-> detail]

(***************************************************************************)
(* LoadBoard Network endpoints (src/app/routers/loadboard.py)              *)
(***************************************************************************)
\* SUPABASE_AVAILABLE and settings.SUPABASE_URL and settings.SUPABASE_SERVICE_ROLE_KEY
is_supabase_enabled_unconditional(cfg) == TRUE

is_supabase_enabled(cfg) ==
    cfg.SUPABASE_AVAILABLE /\ cfg.SUPABASE_URL /\ cfg.SUPABASE_SERVICE_ROLE_KEY

SettingsChoices ==
    [SUPABASE_AVAILABLE : BOOLEAN, SUPABASE_URL : BOOLEAN, SUPABASE_SERVICE_ROLE_KEY : BOOLEAN]

SupabaseNotConfigured ==
    "Supabase is not configured. Please set SUPABASE_URL and SUPABASE_SERVICE_ROLE_KEY "
    \o "environment variables and install the supabase package."

PostXml == "<LBNLoadPostings><PostingAccount/><PostLoads><load/></PostLoads></LBNLoadPostings>"
RemoveXml == "<LBNLoadPostings><PostingAccount/><RemoveLoads><load/></RemoveLoads></LBNLoadPostings>"

\* a request body: the bytes as text, whether they decode as UTF-8, and what
\* json.loads makes of the text ("object" with its fields, "other" for any other
\* JSON value, "invalid" when it raises JSONDecodeError)
json_body(text, fields) == [utf8 |-> TRUE, text |-> text, json |-> "object", data |-> fields]
text_body(text) == [utf8 |-> TRUE, text |-> text, json |-> "invalid", data |-> NoOptions]

BodyChoices ==
    {json_body("{\"xml\": \"" \o PostXml \o "\"}", [k \in {"xml"} |-> PostXml]),
     json_body("{\"xml\": \"" \o RemoveXml \o "\"}", [k \in {"xml"} |-> RemoveXml]),
     json_body("{\"invalid\": \"field\"}", [k \in {"invalid"} |-> "field"]),
     json_body("{}", NoOptions),
     [utf8 |-> TRUE, text |-> "[]", json |-> "other", data |-> NoOptions],
     text_body(PostXml),
     [utf8 |-> FALSE, text |-> "", json |-> "invalid", data |-> NoOptions]}

\* the Content-Type header, lower-cased; "" when the header is absent
ContentTypes == {"application/json", "application/xml", "text/xml", "text/plain", ""}

Endpoints == {"/loadboard/post_loads", "/loadboard/remove_loads"}

\* an exception: the class and what str() gives for it
exception(class, text) == [class |-> class, text |-> text]

\* HTTPException.__str__ is "<status_code>: <detail>"
http_exception(status_code, detail) ==
    [class |-> "HTTPException", status_code |-> status_code, detail |-> detail,
     text |-> ToString(status_code) \o ": " \o detail]

returned(value) == [raised |-> FALSE, value |-> value]
raised(exc) == [raised |-> TRUE, exc |-> exc]

\* extract_xml_content: the XML string, or the exception it raises
extract_xml_content(req) ==
    LET body == req.body
        content_type == req.content_type
        has_xml == body.json = "object" /\ "xml" \in DOMAIN body.data
    IN  IF ~body.utf8
        THEN raised(exception("UnicodeDecodeError", "'utf-8' codec can't decode"))
        ELSE IF content_type \in {"application/xml", "text/xml"}
        THEN returned(body.text)
        ELSE IF content_type = "application/json"
        THEN IF body.json = "invalid"
             THEN raised(http_exception(400, "Invalid JSON"))
             ELSE IF has_xml
             THEN returned(body.data["xml"])
             ELSE raised(http_exception(400, "JSON request must contain 'xml' field with XML content"))
        ELSE IF has_xml THEN returned(body.data["xml"]) ELSE returned(body.text)

\* a response message: its leading words and the rest
message(head, rest) == [head |-> head, rest |-> rest]

\* what process_xml_request can do: return (response_message, success_count), or raise
ServiceOutcomes ==
    {returned([response_message |-> message("Successfully posted", ""), success_count |-> 1]),
     returned([response_message |-> message("Successfully removed", ""), success_count |-> 1]),
     returned([response_message |-> message("Data format incorrect", ""), success_count |-> 0]),
     returned([response_message |-> message("Data invalid", ": Invalid XML format"), success_count |-> 0]),
     returned([response_message |-> message("Error", ": connection reset"), success_count |-> 0]),
     raised(exception("Exception", "Database connection failed"))}

NotInvoked == [raised |-> FALSE, invoked |-> FALSE]

MaxCalls == 2

plain_text_response(status_code, text) == [status_code |-> status_code, text |-> text]

\* the body of post_loads and of remove_loads after the configuration test: the
\* PlainTextResponse, from the extraction and from what the service did
loadboard_try(extracted, outcome) ==
    IF extracted.raised
    THEN plain_text_response(200, message("Error", ": " \o extracted.exc.text))
    ELSE IF outcome.raised
    THEN plain_text_response(200, message("Error", ": " \o outcome.exc.text))
    ELSE plain_text_response(200, outcome.value.response_message)

NoRequest == [endpoint |-> "none", content_type |-> "", body |-> text_body("")]

(***************************************************************************)
(* LoadBoardService.process_xml_request over SupabaseService               *)
(* An XML document is what parse_lbn_xml reads from it: whether it parses, *)
(* the UserID of the posting account, which of PostLoads / RemoveLoads it  *)
(* holds, and the tracking numbers of its loads.  The table loadboard_loads *)
(* is the set of its unique_id values.                                     *)
(***************************************************************************)
lbn_xml(well_formed, userid, operation, tracking_numbers) ==
    [well_formed |-> well_formed, userid |-> userid, operation |-> operation,
     tracking_numbers |-> tracking_numbers]

parse_lbn_xml(xml) ==
    IF ~xml.well_formed
    THEN raised(exception("ValueError", "Invalid XML format"))
    ELSE IF xml.operation = None
    THEN raised(exception("ValueError", "Neither PostLoads nor RemoveLoads found"))
    ELSE returned([account |-> [userid |-> xml.userid],
                   operation |-> xml.operation,
                   loads |-> [i \in 1..Len(xml.tracking_numbers) |->
                                 [tracking_number |-> xml.tracking_numbers[i]]]])

\* f"{user_id}_{tracking_number}"
unique_id_of(user_id, tracking_number) == user_id \o "_" \o tracking_number

\* SupabaseService.save_load(account_data, load_data): the bool it returns and the
\* table afterwards; upsert_ok is whether the upsert went through
save_load(rows, account_data, load_data, upsert_ok) ==
    LET user_id == account_data.userid
        tracking_number == load_data.tracking_number
    IN  IF user_id = None \/ tracking_number = None
        THEN [saved |-> FALSE, rows |-> rows]
        ELSE IF upsert_ok
        THEN [saved |-> TRUE, rows |-> rows \cup {unique_id_of(user_id, tracking_number)}]
        ELSE [saved |-> FALSE, rows |-> rows]

\* positional parameters of save_load after self
SaveLoadParameters == 2

\* a call of the bound method with the positional arguments args: Python raises
\* TypeError before the body runs when their number is not that of the parameters
call_save_load(rows, args, upsert_ok) ==
    IF Len(args) # SaveLoadParameters
    THEN raised(exception("TypeError", "save_load() takes 3 positional arguments but 4 were given"))
    ELSE returned(save_load(rows, args[1], args[2], upsert_ok))

\* SupabaseService.remove_load(account_data, load_data)
remove_load(rows, account_data, load_data) ==
    LET user_id == account_data.userid
        tracking_number == load_data.tracking_number
    IN  IF user_id = None \/ tracking_number = None
        THEN [removed |-> FALSE, missing |-> FALSE, unique_id |-> "", rows |-> rows]
        ELSE LET unique_id == unique_id_of(user_id, tracking_number)
             IN  IF unique_id \notin rows
                 THEN [removed |-> FALSE, missing |-> TRUE, unique_id |-> unique_id, rows |-> rows]
                 ELSE [removed |-> TRUE, missing |-> FALSE, unique_id |-> unique_id,
                       rows |-> rows \ {unique_id}]

RECURSIVE post_loop(_, _, _, _)
\* "for load_data in loads" of the post branch, from load k on;
\* acc = [success_count, rows]
post_loop(parsed, k, upsert_ok, acc) ==
    IF k > Len(parsed.loads) THEN acc
    ELSE LET call == call_save_load(acc.rows, <<parsed.account, parsed.loads[k], parsed.operation>>,
                                    upsert_ok)
             acc1 == IF call.raised THEN acc
                     ELSE [success_count |-> IF call.value.saved THEN acc.success_count + 1
                                             ELSE acc.success_count,
                           rows |-> call.value.rows]
         IN  post_loop(parsed, k + 1, upsert_ok, acc1)

RECURSIVE remove_loop(_, _, _)
\* "for load_data in loads" of the remove branch; acc = [success_count, missing_ids, rows]
remove_loop(parsed, k, acc) ==
    IF k > Len(parsed.loads) THEN acc
    ELSE LET r == remove_load(acc.rows, parsed.account, parsed.loads[k])
             acc1 == [success_count |-> IF r.removed THEN acc.success_count + 1 ELSE acc.success_count,
                      missing_ids |-> IF r.missing THEN Append(acc.missing_ids, r.unique_id)
                                      ELSE acc.missing_ids,
                      rows |-> r.rows]
         IN  remove_loop(parsed, k + 1, acc1)

RECURSIVE join(_)
\* ', '.join(ids)
join(ids) ==
    IF ids = <<>> THEN ""
    ELSE IF Len(ids) = 1 THEN ids[1]
    ELSE ids[1] \o ", " \o join(Tail(ids))

\* process_xml_request: (response_message, success_count) and the table afterwards
process_xml_request(rows, xml, upsert_ok) ==
    LET parse == parse_lbn_xml(xml)
        answer(head, rest, n, after) ==
            [response_message |-> message(head, rest), success_count |-> n, rows |-> after]
    IN  IF parse.raised
        THEN answer("Data invalid", ": " \o parse.exc.text, 0, rows)
        ELSE IF parse.value.loads = <<>>
        THEN answer("Data format incorrect", "", 0, rows)
        ELSE IF parse.value.operation = "post"
        THEN LET done == post_loop(parse.value, 1, upsert_ok, [success_count |-> 0, rows |-> rows])
             IN  answer("Successfully posted", "", done.success_count, done.rows)
        ELSE IF parse.value.operation = "remove"
        THEN LET done == remove_loop(parse.value, 1,
                                     [success_count |-> 0, missing_ids |-> <<>>, rows |-> rows])
             IN  IF done.missing_ids # <<>> /\ done.success_count = 0
                 THEN answer("ID does not exist", ": " \o join(done.missing_ids),
                             done.success_count, done.rows)
                 ELSE IF done.missing_ids # <<>>
                 THEN answer("Removed " \o ToString(done.success_count),
                             ", missing: " \o join(done.missing_ids), done.success_count, done.rows)
                 ELSE answer("Successfully removed", "", done.success_count, done.rows)
        ELSE answer("Data format incorrect", "", 0, rows)

\* documents: one posting account, up to MaxPosted loads
MaxPosted == 2
UserIds == {None, "u1"}
TrackingNumbers == {None, "t1", "t2"}
LbnDocuments ==
    {lbn_xml(w, u, o, t) :
        w \in BOOLEAN, u \in UserIds, o \in {"post", "remove", None},
        t \in UNION {[1..n -> TrackingNumbers] : n \in 0..MaxPosted}}
NoLbnCall == [xml |-> lbn_xml(FALSE, None, None, <<>>), upsert_ok |-> FALSE, called |-> FALSE]

(***************************************************************************)
(* Actions                                                                 *)
(***************************************************************************)
NoHosCall == [active |-> FALSE, chain |-> <<>>, start_time_minutes |-> 0, reference_time |-> 0]
NoChainCall == [called |-> FALSE, validate_hos |-> FALSE, valid |-> FALSE]

\* no duty-time validation under way
hos_idle ==
    /\ hos_call = NoHosCall
    /\ hos_i = 0
    /\ hos = hos_locals(0)
    /\ vrc = NoChainCall

\* nothing posted or removed yet, an empty table
service_idle ==
    /\ table = {}
    /\ lbn_call = NoLbnCall
    /\ processed = [response_message |-> message("", ""), success_count |-> 0]

Init ==
    /\ request \in Requests
    /\ page = 1 /\ page_size = 10
    /\ pc = "idle"
    /\ params = search_params(request, 1, 10)
    /\ iteration = 0 /\ max_deadhead = 0 /\ dest_deadhead = 0
    /\ best_routes = <<>> /\ best_deadhead = 0
    /\ iter = <<>> /\ history = <<>>
    /\ routes = <<>> /\ actual_deadhead = 0
    /\ response = <<>>
    /\ previous = <<>>
    /\ settings = [SUPABASE_AVAILABLE |-> TRUE, SUPABASE_URL |-> FALSE, SUPABASE_SERVICE_ROLE_KEY |-> FALSE]
    /\ lb_request = NoRequest
    /\ lb_outcome = NotInvoked
    /\ lb_response = plain_text_response(0, message("", ""))
    /\ service_invocations = 0
    /\ hos_idle
    /\ service_idle

\* POST /get_all_routes arrives: validation, search arguments, loop locals
get_all_routes(page_no, size) ==
    /\ pc \in {"idle", "done"}
    /\ page' = page_no /\ page_size' = size
    /\ previous' = IF pc = "done"
                   THEN <<[page |-> page, page_size |-> page_size, params |-> params,
                           routes |-> routes, actual_deadhead |-> actual_deadhead,
                           response |-> response]>>
                   ELSE previous
    /\ params' = search_params(request, page_no, size)
    /\ iter' = <<>> /\ history' = <<>>
    /\ routes' = <<>> /\ actual_deadhead' = 0
    /\ LET l == loop_locals(request)
       IN  /\ iteration' = l.iteration
           /\ max_deadhead' = l.max_deadhead
           /\ dest_deadhead' = l.dest_deadhead
           /\ best_routes' = l.best_routes
           /\ best_deadhead' = l.best_deadhead
    /\ IF request.loads = <<>>
       THEN /\ response' = http_error(400, "No loads provided")
            /\ pc' = "done"
       ELSE /\ response' = <<>>
            /\ pc' = "search"
    /\ UNCHANGED <<request, loadboard_vars, hos_vars, service_vars>>

\* one body of the while loop of find_all_routes_from_request
search_step ==
    /\ pc = "search"
    /\ loop_continues(iteration, params.max_iterations, max_deadhead)
    /\ iter' = search_iteration(context(request, params, max_deadhead, dest_deadhead))
    /\ LET filtered_routes == iter'.filtered_routes
           better == replaces_best(filtered_routes, best_routes)
       IN  /\ history' = Append(history, [max_deadhead |-> max_deadhead,
                                          dest_deadhead |-> dest_deadhead,
                                          stage |-> iter'.stage,
                                          found |-> Len(filtered_routes)])
           /\ best_routes' = IF better THEN filtered_routes ELSE best_routes
           /\ best_deadhead' = IF better THEN max_deadhead ELSE best_deadhead
           /\ IF enough_routes(filtered_routes, params.min_required_routes)
                 \/ ~params.auto_increase_deadhead
              THEN /\ routes' = filtered_routes
                   /\ actual_deadhead' = max_deadhead
                   /\ pc' = "returned"
                   /\ UNCHANGED <<iteration, max_deadhead, dest_deadhead>>
              ELSE /\ iteration' = iteration + 1
                   /\ max_deadhead' = increased_deadhead(initial_max_deadhead(request), iteration + 1)
                   /\ dest_deadhead' = increased_deadhead(initial_dest_deadhead(request), iteration + 1)
                   /\ UNCHANGED <<routes, actual_deadhead, pc>>
    /\ UNCHANGED <<request, page, page_size, params, response, previous, loadboard_vars, hos_vars, service_vars>>

\* the loop ends without an early return: the best list seen, or none
search_exhausted ==
    /\ pc = "search"
    /\ ~loop_continues(iteration, params.max_iterations, max_deadhead)
    /\ IF best_routes # <<>>
       THEN routes' = best_routes /\ actual_deadhead' = best_deadhead
       ELSE routes' = <<>> /\ actual_deadhead' = max_deadhead
    /\ pc' = "returned"
    /\ UNCHANGED <<request, page, page_size, params, iteration, max_deadhead, dest_deadhead,
                   best_routes, best_deadhead, iter, history, response, previous, loadboard_vars, hos_vars, service_vars>>

\* get_all_routes after the search: slice the page and answer
respond ==
    /\ pc = "returned"
    /\ response' = http_response(200, routes, paginated_routes(routes, page, page_size), page, page_size)
    /\ pc' = "done"
    /\ UNCHANGED <<request, page, page_size, params, iteration, max_deadhead, dest_deadhead,
                   best_routes, best_deadhead, iter, history, routes, actual_deadhead, previous,
                   loadboard_vars, hos_vars, service_vars>>

Next ==
    \/ \E c \in PageChoices : get_all_routes(c[1], c[2])
    \/ search_step
    \/ search_exhausted
    \/ respond

Spec == Init /\ [][Next]_vars

\* the service of src/app/main.py: no route request, any configuration
LoadboardInit ==
    /\ request = [loads |-> <<>>,
                  searchCriteria |-> [origin |-> Origin, destination |-> NoDestination, options |-> NoOptions]]
    /\ page = 1 /\ page_size = 10
    /\ pc = "idle"
    /\ params = search_params(request, 1, 10)
    /\ iteration = 0 /\ max_deadhead = 0 /\ dest_deadhead = 0
    /\ best_routes = <<>> /\ best_deadhead = 0
    /\ iter = <<>> /\ history = <<>>
    /\ routes = <<>> /\ actual_deadhead = 0
    /\ response = <<>>
    /\ previous = <<>>
    /\ settings \in SettingsChoices
    /\ lb_request = NoRequest
    /\ lb_outcome = NotInvoked
    /\ lb_response = plain_text_response(0, message("", ""))
    /\ service_invocations = 0
    /\ hos_idle
    /\ service_idle

\* the common body of the two handlers, which differ in their route only
loadboard_handler(endpoint, content_type, body, outcome) ==
    LET req == [endpoint |-> endpoint, content_type |-> content_type, body |-> body]
        extracted == extract_xml_content(req)
    IN  /\ service_invocations < MaxCalls
        /\ lb_request' = req
        /\ IF ~is_supabase_enabled(settings)
           THEN /\ lb_response' = [status_code |-> 503, detail |-> SupabaseNotConfigured]
                /\ lb_outcome' = NotInvoked
                /\ UNCHANGED service_invocations
           ELSE /\ lb_response' = loadboard_try(extracted, outcome)
                /\ lb_outcome' = IF extracted.raised THEN NotInvoked ELSE outcome
                /\ service_invocations' =
                      IF extracted.raised THEN service_invocations ELSE service_invocations + 1
        /\ UNCHANGED <<settings, route_vars, hos_vars, service_vars>>

\* POST /loadboard/post_loads
post_loads(content_type, body, outcome) ==
    loadboard_handler("/loadboard/post_loads", content_type, body, outcome)

\* POST /loadboard/remove_loads
remove_loads(content_type, body, outcome) ==
    loadboard_handler("/loadboard/remove_loads", content_type, body, outcome)

LoadboardNext ==
    \/ \E ct \in ContentTypes, b \in BodyChoices, o \in ServiceOutcomes : post_loads(ct, b, o)
    \/ \E ct \in ContentTypes, b \in BodyChoices, o \in ServiceOutcomes : remove_loads(ct, b, o)

LoadboardSpec == LoadboardInit /\ [][LoadboardNext]_vars

\* no route request and no loadboard request: the state the other entry points leave alone
route_idle ==
    /\ request = [loads |-> <<>>,
                  searchCriteria |-> [origin |-> Origin, destination |-> NoDestination, options |-> NoOptions]]
    /\ page = 1 /\ page_size = 10
    /\ pc = "idle"
    /\ params = search_params(request, 1, 10)
    /\ iteration = 0 /\ max_deadhead = 0 /\ dest_deadhead = 0
    /\ best_routes = <<>> /\ best_deadhead = 0
    /\ iter = <<>> /\ history = <<>>
    /\ routes = <<>> /\ actual_deadhead = 0
    /\ response = <<>>
    /\ previous = <<>>

loadboard_idle ==
    /\ settings = [SUPABASE_AVAILABLE |-> TRUE, SUPABASE_URL |-> TRUE, SUPABASE_SERVICE_ROLE_KEY |-> TRUE]
    /\ lb_request = NoRequest
    /\ lb_outcome = NotInvoked
    /\ lb_response = plain_text_response(0, message("", ""))
    /\ service_invocations = 0

\* the duty-time validator and validate_route_chain as functions of a chain: the
\* arguments of the call are drawn here, the actions run the call
HosInit ==
    /\ route_idle
    /\ loadboard_idle
    /\ service_idle
    /\ hos_call \in {[active |-> TRUE, chain |-> c, start_time_minutes |-> t, reference_time |-> r] :
                       c \in HosChains, t \in HosStartTimes, r \in HosReferenceTimes}
    /\ hos_i = 1
    /\ hos = hos_locals(hos_call.start_time_minutes)
    /\ vrc = NoChainCall

\* "if not chain: return True, None"
validate_hos_for_chain_empty ==
    /\ hos_call.active /\ ~hos.returned
    /\ hos_call.chain = <<>>
    /\ hos' = validate_hos_for_chain(hos_call.chain, hos_call.start_time_minutes, hos_call.reference_time)
    /\ UNCHANGED <<hos_call, hos_i, vrc, route_vars, loadboard_vars, service_vars>>

\* one leg of its loop
validate_hos_for_chain_leg ==
    /\ hos_call.active /\ ~hos.returned
    /\ hos_call.chain # <<>>
    /\ hos' = hos_leg(hos, hos_call.chain, hos_i, hos_call.reference_time)
    /\ hos_i' = hos_i + 1
    /\ UNCHANGED <<hos_call, vrc, route_vars, loadboard_vars, service_vars>>

\* validate_route_chain is called for the chain the validator has just judged
validate_route_chain_call(validate_hos) ==
    /\ hos_call.active /\ hos.returned /\ ~vrc.called
    /\ vrc' = [called |-> TRUE, validate_hos |-> validate_hos,
               valid |-> validate_route_chain(hos_call.chain, hos_call.start_time_minutes,
                                              DefaultMaxDeadhead, hos_call.reference_time, validate_hos)]
    /\ UNCHANGED <<hos_call, hos_i, hos, route_vars, loadboard_vars, service_vars>>

HosNext ==
    \/ validate_hos_for_chain_empty
    \/ validate_hos_for_chain_leg
    \/ \E v \in BOOLEAN : validate_route_chain_call(v)

HosSpec == HosInit /\ [][HosNext]_vars

\* the service on a table that may hold rows already
ServiceInit ==
    /\ route_idle
    /\ loadboard_idle
    /\ hos_idle
    /\ table \in SUBSET {unique_id_of("u1", "t1"), unique_id_of("u1", "t2")}
    /\ lbn_call = NoLbnCall
    /\ processed = [response_message |-> message("", ""), success_count |-> 0]

\* LoadBoardService.process_xml_request(xml_content)
process_xml_request_call(xml, upsert_ok) ==
    LET result == process_xml_request(table, xml, upsert_ok)
    IN  /\ lbn_call' = [xml |-> xml, upsert_ok |-> upsert_ok, called |-> TRUE]
        /\ processed' = [response_message |-> result.response_message,
                         success_count |-> result.success_count]
        /\ table' = result.rows
        /\ UNCHANGED <<route_vars, loadboard_vars, hos_vars>>

\* a document with PostLoads
post_document(xml, upsert_ok) ==
    /\ xml.well_formed /\ xml.operation = "post"
    /\ process_xml_request_call(xml, upsert_ok)

\* a document with RemoveLoads
remove_document(xml) ==
    /\ xml.well_formed /\ xml.operation = "remove"
    /\ process_xml_request_call(xml, TRUE)

\* anything else: not XML, or neither element
other_document(xml) ==
    /\ ~xml.well_formed \/ xml.operation = None
    /\ process_xml_request_call(xml, TRUE)

ServiceNext ==
    \/ \E xml \in LbnDocuments, ok \in BOOLEAN : post_document(xml, ok)
    \/ \E xml \in LbnDocuments : remove_document(xml)
    \/ \E xml \in LbnDocuments : other_document(xml)

ServiceSpec == ServiceInit /\ [][ServiceNext]_vars

(***************************************************************************)
(* Properties                                                              *)
(***************************************************************************)
Returned == pc \in {"returned", "done"} /\ request.loads # <<>>
Searched == Len(history) > 0

configured(key, default) == opt_get(request.searchCriteria.options, key, default)

\* the loads of the request whose pickup is within tolerance md of the origin
loads_in_reach(md) ==
    {i \in 1..Len(request.loads) :
        haversine_distance(request.searchCriteria.origin.latitude, request.searchCriteria.origin.longitude,
                           request.loads[i].origin.latitude, request.loads[i].origin.longitude) <= md}

\* C1: every edge of the chain graph built in an iteration has a deadhead of at
\* most twice that iteration's origin tolerance, and in the returned routes every
\* segment after the first has deadhead_before at most twice the returned deadhead.
C1_EdgeDeadheadBound ==
    /\ Searched =>
          \A id \in DOMAIN iter.chain_graph :
             \A e \in 1..Len(iter.chain_graph[id]) :
                iter.chain_graph[id][e].deadhead <= 2 * iter.max_deadhead
    /\ Returned =>
          \A r \in 1..Len(routes) :
             \A k \in 2..Len(routes[r].segments) :
                routes[r].segments[k].deadhead_before <= 2 * actual_deadhead

\* a returned chain whose second leg needed a tolerance above the initial one
C1_Witness ==
    /\ Returned
    /\ \E r \in 1..Len(routes) :
          /\ Len(routes[r].segments) >= 2
          /\ routes[r].segments[2].deadhead_before > 2 * initial_max_deadhead(request)

\* C2: no returned route, and no route of the best list kept so far, has the
\* same load id in two of its segments.
C2_NoRepeatedLoadId ==
    \A list \in {routes, best_routes} :
       \A r \in 1..Len(list) :
          \A k1, k2 \in 1..Len(list[r].segments) :
             k1 # k2 => list[r].segments[k1].load_id # list[r].segments[k2].load_id

\* a returned chain through a load whose id another load of the request carries too
C2_Witness ==
    /\ Returned
    /\ \E r \in 1..Len(routes) :
          /\ Len(routes[r].segments) >= 2
          /\ \E k \in 1..Len(routes[r].segments) :
                Cardinality({i \in 1..Len(request.loads) :
                               request.loads[i].id = routes[r].segments[k].load_id}) >= 2

\* C3: no two returned routes have the same ordered sequence of
\* (origin label, destination label) pairs.
C3_DistinctSignatures ==
    Returned =>
       \A r1, r2 \in 1..Len(routes) :
          r1 # r2 => route_sig(routes[r1]) # route_sig(routes[r2])

\* several routes returned from an iteration whose candidates held a duplicate signature
C3_Witness ==
    /\ Returned /\ Searched
    /\ Len(routes) >= 2
    /\ routes = iter.filtered_routes
    /\ Len(iter.unique_routes) < Len(iter.all_routes)

\* C4: when an iteration's result is the output of the first filter stage, every
\* route of it has deadhead / (distance + deadhead) <= the configured maxDeadheadRatio.
C4_Stage1RatioBound ==
    (Searched /\ iter.stage = 1) =>
       \A r \in 1..Len(iter.filtered_routes) :
          ~ratio_exceeds(iter.filtered_routes[r], configured("maxDeadheadRatio", DefaultMaxDeadheadRatio))

RECURSIVE concat_pages(_, _, _, _)
\* pages p..last of list all, one after the other
concat_pages(all, size, p, last) ==
    IF p > last THEN <<>>
    ELSE paginated_routes(all, p, size) \o concat_pages(all, size, p + 1, last)

\* C6: the pages 1..total_pages of the returned list at the call's page_size,
\* one after the other, are the returned list; every route is on exactly one page.
C6_PagesReconstructList ==
    Returned =>
       LET last == total_pages_of(Len(routes), page_size)
       IN  /\ concat_pages(routes, page_size, 1, last) = routes
           /\ \A i \in 1..Len(routes) :
                 Cardinality({p \in 1..last :
                    \E k \in 1..Len(paginated_routes(routes, p, page_size)) :
                       paginated_routes(routes, p, page_size)[k].route_id = routes[i].route_id}) = 1

\* several pages, the last one partly filled
C6_Witness ==
    /\ pc = "done" /\ Returned
    /\ Len(routes) > page_size
    /\ Len(routes) % page_size # 0

\* C7: the origin and destination tolerances of successive iterations never decrease.
C7_TolerancesNonDecreasing ==
    \A i \in 1..(Len(history) - 1) :
       /\ history[i + 1].max_deadhead >= history[i].max_deadhead
       /\ history[i + 1].dest_deadhead >= history[i].dest_deadhead

C7_Witness ==
    /\ Len(history) >= 3
    /\ history[1].max_deadhead # history[1].dest_deadhead

\* C8: a search runs at most 10 iterations, the iteration counter counting them; and
\* when no load was within any tolerance tried, the search returns no route and the
\* endpoint answers 200 with zero routes and a message.
C8_BoundedSearchEmptyResult ==
    /\ Len(history) <= MaxIterations
    /\ pc = "search" => Len(history) = iteration
    /\ (pc = "done" /\ request.loads # <<>>
          /\ \A h \in 1..Len(history) : loads_in_reach(history[h].max_deadhead) = {})
       => /\ routes = <<>>
          /\ response.status = 200
          /\ response.total_routes = 0
          /\ response.routes = <<>>
          /\ "message" \in DOMAIN response

\* ten iterations without a load in reach, answered
C8_Witness ==
    /\ pc = "done" /\ request.loads # <<>>
    /\ Len(history) = MaxIterations
    /\ \A h \in 1..Len(history) : loads_in_reach(history[h].max_deadhead) = {}
    /\ response.status = 200

\* C9: total_routes never exceeds the configured options.maxRoutes.
C9_TotalWithinMaxRoutes ==
    (pc = "done" /\ request.loads # <<>>) =>
       response.total_routes <= configured("maxRoutes", DefaultMaxTotalRoutes)

\* C10: every returned route has at most the configured maxChainLength segments.
C10_ChainLengthBound ==
    Returned =>
       \A r \in 1..Len(routes) :
          Len(routes[r].segments) <= configured("maxChainLength", DefaultMaxChainLength)

\* the one-leg route segment find_all_routes_from_request builds for load i of the request
single_segment(i) ==
    LET load == to_loads_dict(request.loads)[i]
    IN  segment_of(load, haversine_distance(request.searchCriteria.origin.latitude,
                                            request.searchCriteria.origin.longitude,
                                            load.origin.latitude, load.origin.longitude))

\* C11: in every iteration, every load whose pickup is within the origin tolerance of
\* the iteration is the single segment of one of the iteration's candidate routes.
C11_SingleLoadCandidates ==
    Searched =>
       \A i \in loads_in_reach(iter.max_deadhead) :
          \E r \in 1..Len(iter.all_routes) :
             iter.all_routes[r].segments = <<single_segment(i)>>

\* the index in the request of the load carried by the last segment of a candidate route
last_load_of(route) ==
    LET seg == route.segments[Len(route.segments)]
        loads_dict == to_loads_dict(request.loads)
    IN  CHOOSE i \in 1..Len(loads_dict) : segment_of(loads_dict[i], seg.deadhead_before) = seg

\* C12: every candidate route of an iteration has ends_near_destination true exactly
\* when the request names a destination and the distance from the delivery point of the
\* route's last leg to it is within the iteration's destination tolerance.
C12_EndsNearDestination ==
    Searched =>
       \A r \in 1..Len(iter.all_routes) :
          LET final_deliv == request.loads[last_load_of(iter.all_routes[r])].destination
              target == request.searchCriteria.destination
          IN  iter.all_routes[r].ends_near_destination
                 <=> /\ target.present
                     /\ haversine_distance(final_deliv.latitude, final_deliv.longitude,
                                           target.latitude, target.longitude) <= iter.dest_deadhead

deadhead_between(a, b) ==
    haversine_distance(a.destination.latitude, a.destination.longitude,
                       b.origin.latitude, b.origin.longitude)

\* both timestamps of a window are ISO-8601
window_parses(w) == w.earliest # Unparseable /\ w.latest # Unparseable

\* the chain graph of the latest iteration has the edge a -> b
has_edge(a, b) ==
    /\ a.load_id \in DOMAIN iter.chain_graph
    /\ \E e \in 1..Len(iter.chain_graph[a.load_id]) :
          iter.chain_graph[a.load_id][e] = [load |-> b, deadhead |-> deadhead_between(a, b)]

\* some route of the list has load b directly after load a
directly_after(list, a, b) ==
    \E r \in 1..Len(list) :
       \E k \in 1..(Len(list[r].segments) - 1) :
          /\ list[r].segments[k] = segment_of(a, list[r].segments[k].deadhead_before)
          /\ list[r].segments[k + 1] = segment_of(b, deadhead_between(a, b))

\* C14: for two distinct loads A and B of the request whose deadhead is within twice
\* the iteration's tolerance and whose delivery and pickup windows parse, the chain
\* graph has the edge A -> B exactly when A's earliest delivery + 60 minutes + the
\* deadhead travel time is no later than B's latest pickup; without the edge, no route
\* of the iteration's result has B directly after A.
C14_TimeWindowEdge ==
    Searched =>
       LET loads_dict == to_loads_dict(request.loads)
       IN  \A i, j \in 1..Len(loads_dict) :
              LET a == loads_dict[i]
                  b == loads_dict[j]
              IN  (/\ i # j
                   /\ deadhead_between(a, b) <= 2 * iter.max_deadhead
                   /\ window_parses(a.delivery_window)
                   /\ window_parses(b.pickup_window))
                  => /\ has_edge(a, b)
                        <=> to_utc(a.delivery_window.earliest) + UnloadBufferMinutes
                               + calculate_travel_time_miles(deadhead_between(a, b))
                            <= to_utc(b.pickup_window.latest)
                     /\ ~has_edge(a, b) => ~directly_after(iter.filtered_routes, a, b)

\* length penalty of the ranking key
length_penalty(route) ==
    IF Len(route.segments) >= 3 THEN 50 * (Len(route.segments) - 2) ELSE 0

\* the ranking key of a as a 5-tuple of integers against that of b; the ratios
\* loaded / total of the two routes are brought to the common denominator
ranking_key(a, b) ==
    LET total(r) == r.total_distance + r.total_deadhead
        den(r) == IF total(r) > 0 THEN total(r) ELSE 1
        num(r) == IF total(r) > 0 THEN r.total_distance ELSE 0
    IN  <<a.total_distance, num(a) * den(b), -total(a), -a.total_deadhead, -length_penalty(a)>>

RECURSIVE lex_ge(_, _)
\* lexicographic >= on tuples of equal length
lex_ge(x, y) ==
    IF x = <<>> THEN TRUE
    ELSE \/ x[1] > y[1]
         \/ x[1] = y[1] /\ lex_ge(Tail(x), Tail(y))

\* the position of a route of the result among the deduplicated candidates
discovery_position(route) ==
    CHOOSE i \in 1..Len(iter.unique_routes) : iter.unique_routes[i].segments = route.segments

C18_RouteIdsInOrder ==
    \A list \in {routes, best_routes} :
       \A i \in 1..Len(list) : list[i].route_id = i

\* the best list of an earlier iteration is returned after later iterations ran, and
\* among the candidates its first route was not the first
C18_Witness ==
    /\ Returned
    /\ Len(history) >= 2
    /\ actual_deadhead = history[1].max_deadhead
    /\ routes = best_routes
    /\ Len(routes) >= 2
    /\ iter.filtered_routes # <<>>
    /\ \E r \in 1..Len(iter.all_routes) :
          iter.all_routes[r].segments = routes[1].segments /\ iter.all_routes[r].route_id # 1

MinRepositioningMinutes == 30

\* C19: every edge A -> B of the chain graph satisfies the time-window test with a
\* deadhead travel time of max(30, deadhead / 50 mph * 60) minutes.
C19_TravelTimeFloor ==
    Searched =>
       LET loads_dict == to_loads_dict(request.loads)
           reference_time == reference_time_of(loads_dict)
       IN  \A i, j \in 1..Len(loads_dict) :
              LET a == loads_dict[i]
                  b == loads_dict[j]
              IN  (i # j /\ has_edge(a, b))
                  => parse_iso_to_minutes(a.delivery_window.earliest, reference_time)
                        + UnloadBufferMinutes
                        + Max(MinRepositioningMinutes,
                              calculate_travel_time_miles(deadhead_between(a, b)))
                     <= parse_iso_to_minutes(b.pickup_window.latest, reference_time)

\* C20: the chain graph has no edge A -> B when a timestamp of A's delivery window or
\* of B's pickup window is unparseable.
C20_NoEdgeFromUnparseable ==
    Searched =>
       LET loads_dict == to_loads_dict(request.loads)
       IN  \A i, j \in 1..Len(loads_dict) :
              (i # j /\ has_edge(loads_dict[i], loads_dict[j]))
              => /\ window_parses(loads_dict[i].delivery_window)
                 /\ window_parses(loads_dict[j].pickup_window)

Answered == lb_request.endpoint # "none"

\* C16: a POST to /loadboard/post_loads with a JSON body that has no 'xml' field is
\* answered with status 422.
C16_MissingXmlIs422 ==
    (/\ lb_request.endpoint = "/loadboard/post_loads"
     /\ lb_request.content_type = "application/json"
     /\ lb_request.body.json = "object"
     /\ "xml" \notin DOMAIN lb_request.body.data)
    => lb_response.status_code = 422

segment_destination_state(seg) ==
    LET loads_dict == to_loads_dict(request.loads)
        i == CHOOSE i \in 1..Len(loads_dict) : segment_of(loads_dict[i], seg.deadhead_before) = seg
    IN  loads_dict[i].destination.state

\* C21: in every candidate route of two or more segments the destination states of
\* the segments are pairwise distinct, with or without a destination in the search
\* criteria.
C21_DistinctDestinationStates ==
    Searched =>
       \A r \in 1..Len(iter.all_routes) :
          LET segments == iter.all_routes[r].segments
          IN  \A j, k \in 1..Len(segments) :
                 j < k => segment_destination_state(segments[j]) # segment_destination_state(segments[k])

\* the chain accepted by the pairwise check alone
pairwise_chainable(chain, tolerance, reference_time) ==
    \A i \in 1..(Len(chain) - 1) :
       can_chain_loads(chain[i].load, chain[i + 1].load, tolerance, reference_time).can_chain

reached_hos_checks(h) ==
    \/ h.valid
    \/ h.error \in {"Next load has invalid pickup window",
                    "Cannot reach next load pickup in time due to HOS constraints"}

\* C23: a leg after which the consecutive-driving counter is above 660 minutes
\* advances the clock by one rest of 600 minutes beyond the end of unloading and
\* leaves the counter at 0.
C23_OneRestBlock ==
    [][(/\ validate_hos_for_chain_leg
        /\ reached_hos_checks(hos')
        /\ hos.consecutive_driving_minutes
              + (hos'.total_driving_minutes - hos.total_driving_minutes) > MaxDrivingMinutes)
       => /\ hos'.current_time = hos'.arrival_at_delivery + UnloadTime + RequiredRestMinutes
          /\ hos'.consecutive_driving_minutes = 0]_vars

\* the call ended by a return inside the loop body
EarlyReturn == Returned /\ loop_continues(iteration, params.max_iterations, max_deadhead)

\* C24: the list find_all_routes_from_request returns is at least as long as the
\* filtered list of every iteration of the call; on a return from inside the loop
\* every earlier iteration was below the target, and when the loop runs out the
\* list returned is a longest one, with the tolerance of the iteration it came from.
C24_ReturnsLargestSeen ==
    Returned =>
       /\ \A k \in 1..Len(history) : Len(routes) >= history[k].found
       /\ EarlyReturn =>
             \A k \in 1..(Len(history) - 1) : history[k].found < params.min_required_routes
       /\ (~EarlyReturn /\ routes # <<>>) =>
             \E k \in 1..Len(history) :
                /\ history[k].found = Len(routes)
                /\ history[k].max_deadhead = actual_deadhead

\* the loop ran out, an early iteration had fewer routes than the list returned, and
\* the tolerance returned is not the last one tried
C24_Witness ==
    /\ Returned /\ ~EarlyReturn
    /\ \E k \in 1..Len(history) : history[k].found < Len(routes)
    /\ actual_deadhead < history[Len(history)].max_deadhead

\* revenue and deadhead ratio of a route against the configured minRevenue and
\* maxDeadheadRatio (a percentage)
within_configured_limits(route) ==
    /\ route.total_revenue >= configured("minRevenue", DefaultMinRevenue)
    /\ route.total_deadhead * 100
          <= configured("maxDeadheadRatio", DefaultMaxDeadheadRatio)
                * (route.total_distance + route.total_deadhead)

\* C25: every deduplicated route of an iteration with revenue >= minRevenue and
\* deadhead ratio <= the configured maximum is in the iteration's filtered list
\* before the cap, whatever the configured maximum, and every route of that list
\* has revenue >= minRevenue.
C25_RelaxationKeepsStage1 ==
    Searched =>
       /\ \A i \in 1..Len(iter.unique_routes) :
             within_configured_limits(iter.unique_routes[i])
                => \E j \in 1..Len(iter.filtered_before_cap) :
                      iter.filtered_before_cap[j] = iter.unique_routes[i]
       /\ \A j \in 1..Len(iter.filtered_before_cap) :
             iter.filtered_before_cap[j].total_revenue >= configured("minRevenue", DefaultMinRevenue)

\* the configured maximum is above the relaxed ceiling, a route between the two is
\* kept, and another route was dropped by stage 1, so that the relaxed stage was tried
C25_Witness ==
    /\ Searched
    /\ configured("maxDeadheadRatio", DefaultMaxDeadheadRatio) > RelaxCeiling
    /\ \E i \in 1..Len(iter.unique_routes) :
          /\ within_configured_limits(iter.unique_routes[i])
          /\ ratio_exceeds(iter.unique_routes[i], RelaxCeiling)
          /\ \E j \in 1..Len(iter.filtered_before_cap) :
                iter.filtered_before_cap[j] = iter.unique_routes[i]
    /\ \E i \in 1..Len(iter.unique_routes) : ~within_configured_limits(iter.unique_routes[i])

\* C26: every iteration of the search ran with an origin tolerance and a destination
\* tolerance of at most 500 miles, whatever the initial tolerances of the options.
C26_TolerancesUnderCeiling ==
    \A k \in 1..Len(history) :
       /\ history[k].max_deadhead <= MaxDeadheadLimit
       /\ history[k].dest_deadhead <= MaxDeadheadLimit

\* C27: two answered calls with the same body and the same page_size report the same
\* total_routes and total_pages and slice the same ranked list, whatever their page
\* numbers; a call that reported has_next_page = false is not followed by a call
\* for a later page that shows routes.
C27_TotalsIndependentOfPage ==
    (/\ pc = "done" /\ request.loads # <<>>
     /\ previous # <<>>
     /\ previous[1].page_size = page_size)
    => /\ previous[1].response.total_routes = response.total_routes
       /\ previous[1].response.pagination.total_pages = response.pagination.total_pages
       /\ previous[1].routes = routes
       /\ (~previous[1].response.pagination.has_next_page /\ page > previous[1].page)
             => response.routes = <<>>

\* C28: a call in which a load's pickup is within the configured initial origin
\* tolerance, minRevenue is 0 and maxChainLength is at least 1 runs at least one
\* iteration and returns at least one route, whatever the initial tolerance.
C28_ReachableLoadGivesRoute ==
    (/\ Returned
     /\ loads_in_reach(initial_max_deadhead(request)) # {}
     /\ configured("minRevenue", DefaultMinRevenue) = 0
     /\ configured("maxChainLength", DefaultMaxChainLength) >= 1)
    => /\ Len(history) >= 1
       /\ routes # <<>>

\* C29: when a candidate of an iteration has total revenue >= minRevenue and the
\* iteration's result is below the route cap, the result holds a route with that
\* candidate's (origin label, destination label) signature.
C29_DedupKeepsQualifying ==
    (Searched /\ Len(iter.filtered_routes) < params.max_routes) =>
       \A c \in 1..Len(iter.all_routes) :
          iter.all_routes[c].total_revenue >= params.min_revenue
             => \E r \in 1..Len(iter.filtered_routes) :
                   route_sig(iter.filtered_routes[r]) = route_sig(iter.all_routes[c])

\* the loads of the latest document that have a user id and a tracking number
storable_loads ==
    {i \in 1..Len(lbn_call.xml.tracking_numbers) :
        lbn_call.xml.userid # None /\ lbn_call.xml.tracking_numbers[i] # None}

\* C30: after a post with the store available, every load that has a user id and a
\* tracking number is a row with unique_id '<user_id>_<tracking_number>',
\* success_count is the number of such loads, and 'Successfully posted' is not the
\* answer when no load was stored.
C30_PostStoresEveryLoad ==
    (/\ lbn_call.called /\ lbn_call.upsert_ok
     /\ lbn_call.xml.well_formed /\ lbn_call.xml.operation = "post"
     /\ lbn_call.xml.tracking_numbers # <<>>)
    => /\ \A i \in storable_loads :
             unique_id_of(lbn_call.xml.userid, lbn_call.xml.tracking_numbers[i]) \in table
       /\ processed.success_count = Cardinality(storable_loads)
       /\ processed.response_message.head = "Successfully posted" => processed.success_count > 0

====
